---------------------------- MODULE Spec2Model ----------------------------
(***************************************************************************)
(* Model of ua-consultants/PPTGenerator.                                   *)
(*                                                                         *)
(*   src/ppt_generator.py  generate_ppt / create_canvas: one slide per     *)
(*                         folder, the folder's images pasted on a         *)
(*                         1920 x 1080 canvas in a square grid (pixels).   *)
(*   src/app.py            the Streamlit script: session state, the        *)
(*                         button handlers and the "Generate" handler      *)
(*                         with its threshold grid (EMU, 914400 per inch). *)
(*                                                                         *)
(* The two programs are separate entry points; Init picks one (prog) and   *)
(* only that program's actions are enabled.                                *)
(***************************************************************************)
EXTENDS Integers, Sequences, FiniteSets, TLC

\* ------------------------------------------------------------------------
\* Bounds of the model
\* ------------------------------------------------------------------------
\* Folders of generate_ppt hold 0..MaxN images (and the two counts ZeroCellN
\* and NegCellN below); root_folder holds 1..MaxFolders folders.
MaxN == 5
MaxFolders == 2

\* The app has MaxUploads uploaded files and runs its script MaxRun times.
MaxUploads == 10
MaxRun == 6

\* ------------------------------------------------------------------------
\* Program constants
\* ------------------------------------------------------------------------
SLIDE_WIDTH == 1920
SLIDE_HEIGHT == 1080
MARGIN == 20

\* ------------------------------------------------------------------------
\* Arithmetic helpers
\* ------------------------------------------------------------------------
Abs(a) == IF a < 0 THEN -a ELSE a
Max(a, b) == IF a >= b THEN a ELSE b

\* math.ceil(p / q) for q > 0
CeilDiv(p, q) == -((-p) \div q)

\* math.ceil(math.sqrt(m)) for m >= 0: the least k with k * k >= m
CeilSqrt(m) == CHOOSE k \in 0..m : k * k >= m /\ \A j \in 0..(k - 1) : j * j < m

\* int(v) of Python for the rational v = p / q, q > 0: truncation toward zero
Trunc(p, q) == IF p >= 0 THEN p \div q ELSE -((-p) \div q)

Box(l, t, w, h) == [left |-> l, top |-> t, width |-> w, height |-> h]

\* ------------------------------------------------------------------------
\* src/ppt_generator.py: create_canvas, the square planner and the cells
\* ------------------------------------------------------------------------
\* cols = math.ceil(math.sqrt(n))
SquareCols(m) == CeilSqrt(m)

\* rows = math.ceil(n / cols)
SquareRowsFloor(m) == m \div SquareCols(m)
SquareRowsPlusOne(m) == (m \div SquareCols(m)) + 1
SquareRows(m) == CeilDiv(m, SquareCols(m))

\* cell_w = (SLIDE_WIDTH - (cols + 1) * MARGIN) // cols
CellW(k) == (SLIDE_WIDTH - (k + 1) * MARGIN) \div k

\* cell_h = (SLIDE_HEIGHT - (rows + 1) * MARGIN) // rows
CellH(k) == (SLIDE_HEIGHT - (k + 1) * MARGIN) \div k

\* Pillow's Image.thumbnail((bx, by)) applied to an image of size w x h,
\* as called at ppt_generator.py:31.  The result is the new (width, height).
\*   x, y = provided_size
\*   if x >= self.width and y >= self.height: return
\*   aspect = self.width / self.height
\*   if x / y >= aspect: x = round_aspect(y * aspect, key = |aspect - n / y|)
\*   else:               y = round_aspect(x / aspect, key = 0 if n == 0
\*                                                   else |aspect - x / n|)
\*   round_aspect(number, key) = max(min(floor, ceil, key=key), 1)
\* The comparisons of the float keys are made exactly, on cross products.
\* by = 0 divides by zero (see PasteStep).  For by < 0 Pillow from 7.0 on
\* takes the else branch; older versions raise in resize (see PasteStep).
RoundAspectX(w, h, by) ==
    LET f  == (by * w) \div h
        cl == CeilDiv(by * w, h)
        pick == IF Abs(w * by - f * h) <= Abs(w * by - cl * h) THEN f ELSE cl
    IN  Max(pick, 1)

RoundAspectY(w, h, bx) ==
    LET f  == (bx * h) \div w
        cl == CeilDiv(bx * h, w)
        pick == IF f = 0 THEN f
                ELSE IF Abs(w * f - bx * h) * cl <= Abs(w * cl - bx * h) * f
                     THEN f ELSE cl
    IN  Max(pick, 1)

Thumbnail(w, h, bx, by) ==
    IF bx >= w /\ by >= h THEN <<w, h>>
    ELSE IF (by > 0 /\ bx * h >= by * w) \/ (by < 0 /\ bx * h <= by * w)
         THEN <<RoundAspectX(w, h, by), by>>
         ELSE <<bx, RoundAspectY(w, h, bx)>>


\* ------------------------------------------------------------------------
\* src/ppt_generator.py: the input of generate_ppt
\* ------------------------------------------------------------------------
\* An image file: its native size in pixels and whether Image.open can
\* decode it.
ImageFile(w, h, ok) == [w |-> w, h |-> h, ok |-> ok]

GoodPool == << ImageFile(4000, 3000, TRUE), ImageFile(3000, 4000, TRUE),
               ImageFile(300, 200, TRUE), ImageFile(1000, 1, TRUE) >>

MixedPool == << ImageFile(4000, 3000, TRUE), ImageFile(640, 480, FALSE),
                ImageFile(3000, 4000, TRUE), ImageFile(300, 200, TRUE),
                ImageFile(1000, 1, TRUE) >>

\* A folder of root_folder: n is the length of the list `images` that the
\* extension filter leaves (ppt_generator.py:58-62), clean tells the pool
\* its images are drawn from.
Folder(m, cl) == [n |-> m, clean |-> cl]

\* images[i] of a folder, i counted from 0
ImageAt(f, i) ==
    LET pool == IF f.clean THEN GoodPool ELSE MixedPool
    IN  pool[(i % Len(pool)) + 1]

FolderChoices == { Folder(m, cl) : m \in 0..MaxN, cl \in BOOLEAN }

\* The least image counts for which cell_h is 0 and negative:
\* rows = 53 gives (1080 - 54 * 20) // 53 = 0, rows = 54 gives -20 // 54 = -1.
ZeroCellN == 52 * 53 + 1
NegCellN == 53 * 54 + 1

RECURSIVE SeqsUpTo(_, _)
SeqsUpTo(S, k) ==
    IF k = 0 THEN { <<>> }
    ELSE LET shorter == SeqsUpTo(S, k - 1)
         IN  shorter \cup { Append(q, e) : q \in shorter, e \in S }

Roots == (SeqsUpTo(FolderChoices, MaxFolders) \ { <<>> })
           \cup { << Folder(ZeroCellN, TRUE) >>, << Folder(NegCellN, TRUE) >> }

\* The record of one canvas.paste: the loop state, the cell, the rectangle
\* the image covers and the image's native size.
Paste(i, rr, cc, cell, box, w, h) ==
    [index |-> i, r |-> rr, c |-> cc, cell |-> cell, box |-> box, native |-> <<w, h>>]

NoPaste == Paste(-1, 0, 0, Box(0, 0, 0, 0), Box(0, 0, 0, 0), 0, 0)

\* ------------------------------------------------------------------------
\* src/app.py: uploads, paths, threshold planner, Inches
\* ------------------------------------------------------------------------
Alphabet == << "a", "b", "c", "d", "e", "f", "g", "h", "i", "j", "k", "l", "m",
               "n", "o", "p", "q", "r", "s", "t", "u", "v", "w", "x", "y", "z" >>

\* The i-th uploaded file: its name (a sequence of characters), its native
\* size and whether add_picture can read it (the uploader filters on the
\* extension only).  Files 1 and 2 are "a 1" and "a-1": one safe name.
UploadName(i) ==
    IF i = 1 THEN << "a", " ", "1" >>
    ELSE IF i = 2 THEN << "a", "-", "1" >>
    ELSE << Alphabet[i], "1" >>

Upload(i) ==
    [ name |-> UploadName(i),
      w |-> IF i % 3 = 1 THEN 4000 ELSE IF i % 3 = 2 THEN 3000 ELSE 800,
      h |-> IF i % 3 = 1 THEN 3000 ELSE IF i % 3 = 2 THEN 4000 ELSE 800,
      ok |-> i # 3 ]

uploaded_files == [ i \in 1..MaxUploads |-> Upload(i) ]

\* safe_name = f.name.replace(" ", "_").replace("-", "_")
SafeName(name) ==
    [ i \in 1..Len(name) |-> IF name[i] \in { " ", "-" } THEN "_" ELSE name[i] ]

\* path = os.path.join(temp_dir, safe_name); temp_dir is the directory
\* tempfile.mkdtemp() made in script run d.
Path(d, i) == [dir |-> d, name |-> SafeName(uploaded_files[i].name)]

\* The file at a path holds the bytes of the last upload written under that
\* safe name (open(path, "wb") overwrites).
Content(p) ==
    LET writers == { i \in 1..MaxUploads : SafeName(uploaded_files[i].name) = p.name }
    IN  uploaded_files[CHOOSE i \in writers : \A j \in writers : j <= i]

\* selected_for_slide: the paths of the checked boxes, in upload order
SelectedForSlide(d, chk) ==
    LET idxs == SelectSeq([ i \in 1..MaxUploads |-> i ], LAMBDA i : i \in chk)
    IN  [ k \in 1..Len(idxs) |-> Path(d, idxs[k]) ]

\* The selections the user makes: the first k check boxes, k = 0..MaxUploads.
SelectionChoices == { 1..k : k \in 0..MaxUploads }

Range(q) == { q[i] : i \in 1..Len(q) }

\* get_all_used_images()
get_all_used_images(groups) == UNION { Range(groups[g]) : g \in 1..Len(groups) }

\* rows of the threshold planner
ThresholdRows(m) == IF m <= 4 THEN 2 ELSE IF m <= 9 THEN 3 ELSE 4

\* cols_grid = (num_imgs + rows - 1) // rows
ThresholdCols(m) == (m + ThresholdRows(m) - 1) \div ThresholdRows(m)

\* pptx.util.Inches(v) = int(v * 914400); v is given as the rational
\* p / q hundredths of an inch, so Inches = int(p * 9144 / q).
EMU_PER_HUNDREDTH == 9144
Inches(p, q) == Trunc(p * EMU_PER_HUNDREDTH, q)

\* max_width = 9.0, max_height = 6.5, the offsets 0.15 and 0.3 and the
\* shrink 0.3, in hundredths of an inch
max_width == 900
max_height == 650
LEFT_OFFSET == 15
TOP_OFFSET == 30
SHRINK == 30


\* The tile of the grid the idx-th picture of a slide is put in:
\* origin (col * img_width, row * img_height), size img_width x img_height.
AppCell(rws, cls, idx) ==
    LET row == idx \div cls
        col == idx % cls
    IN  Box(Inches(col * max_width, cls), Inches(row * max_height, rws),
            Inches(max_width, cls), Inches(max_height, rws))

\* left, top, width, height handed to add_picture (app.py:182-189).  With
\* both width and height given, the picture is shown at exactly that size.
AppPlacement(rws, cls, idx) ==
    LET row == idx \div cls
        col == idx % cls
    IN  Box(Inches(col * max_width + LEFT_OFFSET * cls, cls),
            Inches(row * max_height + TOP_OFFSET * rws, rws),
            Inches(max_width - SHRINK * cls, cls),
            Inches(max_height - SHRINK * rws, rws))

\* add_picture raises when the file is gone or its bytes do not decode.
Decodable(p, gone) == p.dir \notin gone /\ Content(p).ok

\* One slide of the "Generate" handler (app.py:163-192): the grid and, for
\* every image of the group, its cell, the rectangle asked for and whether
\* add_picture succeeded (placed) or raised and was skipped.
AppSlide(group, gone) ==
    LET num_imgs == Len(group)
        rws == ThresholdRows(num_imgs)
        cols_grid == ThresholdCols(num_imgs)
    IN  [ n |-> num_imgs, rows |-> rws, cols |-> cols_grid,
          items |-> [ k \in 1..num_imgs |->
              [ idx |-> k - 1,
                row |-> (k - 1) \div cols_grid,
                col |-> (k - 1) % cols_grid,
                cell |-> AppCell(rws, cols_grid, k - 1),
                box |-> AppPlacement(rws, cols_grid, k - 1),
                placed |-> Decodable(group[k], gone),
                native |-> << Content(group[k]).w, Content(group[k]).h >>,
                path |-> group[k] ] ] ]

NoDoc == [slides |-> <<>>, saved |-> FALSE]

\* ------------------------------------------------------------------------
\* State
\* ------------------------------------------------------------------------
VARIABLES
    prog,                       \* "app" or "batch": which program runs
    \* src/app.py: st.session_state and what surrounds it
    checked,                    \* the check boxes that are ticked (indices)
    run,                        \* script runs so far = temp dirs made
    deleted,                    \* temp dirs removed by shutil.rmtree
    slide_groups,
    selected_images,
    confirm_duplicate_add,
    pending_duplicate_images,
    pending_new_images,
    doc,                        \* the presentation built by the last run
    \* src/ppt_generator.py: generate_ppt
    root,                       \* the folders of root_folder
    fidx,                       \* idx of the folder loop
    gp_pc,                      \* "loop", "canvas", "done", "aborted"
    slides,                     \* folder indices that got a slide
    saved,                      \* prs.save(output_path) was reached
    \* src/ppt_generator.py: create_canvas
    n, cols, rows, cell_w, cell_h, x, y, index, r, c,
    pasted,                     \* number of canvas.paste calls
    last                        \* the last canvas.paste

appVars == << checked, run, deleted, slide_groups, selected_images,
              confirm_duplicate_add, pending_duplicate_images,
              pending_new_images, doc >>
canvasVars == << n, cols, rows, cell_w, cell_h, x, y, index, r, c, pasted, last >>
batchVars == << root, fidx, gp_pc, slides, saved, n, cols, rows, cell_w, cell_h,
                x, y, index, r, c, pasted, last >>
vars == << prog, checked, run, deleted, slide_groups, selected_images,
           confirm_duplicate_add, pending_duplicate_images, pending_new_images,
           doc, root, fidx, gp_pc, slides, saved, n, cols, rows, cell_w,
           cell_h, x, y, index, r, c, pasted, last >>

\* What a step of one program leaves alone: the other program's state.
AppFrame == UNCHANGED << prog, batchVars >>
BatchFrame == UNCHANGED << prog, appVars >>

AppInit ==
    /\ checked = {}
    /\ run = 0
    /\ deleted = {}
    /\ slide_groups = <<>>
    /\ selected_images = <<>>
    /\ confirm_duplicate_add = FALSE
    /\ pending_duplicate_images = <<>>
    /\ pending_new_images = <<>>
    /\ doc = NoDoc

BatchIdle ==
    /\ fidx = 0
    /\ gp_pc = "loop"
    /\ slides = <<>>
    /\ saved = FALSE
    /\ n = 0 /\ cols = 0 /\ rows = 0 /\ cell_w = 0 /\ cell_h = 0
    /\ x = 0 /\ y = 0 /\ index = 0 /\ r = 0 /\ c = 0
    /\ pasted = 0
    /\ last = NoPaste

Init ==
    /\ prog \in { "app", "batch" }
    /\ AppInit
    /\ BatchIdle
    /\ IF prog = "batch" THEN root \in Roots ELSE root = <<>>


\* ------------------------------------------------------------------------
\* src/app.py: one action per script run (a widget event reruns the script;
\* st.rerun() restarts it once more, in a new temp dir, with no button set)
\* ------------------------------------------------------------------------
\* The user ticks or unticks check boxes: the script reruns and line 64
\* stores the new selection.  Several ticks in a row are several reruns of
\* which only the last one's temp dir and selection survive; they are taken
\* as one step.
ChangeSelection(S) ==
    /\ prog = "app"
    /\ AppFrame
    /\ run + 1 <= MaxRun
    /\ S # checked
    /\ run' = run + 1
    /\ checked' = S
    /\ selected_images' = SelectedForSlide(run + 1, S)
    /\ doc' = NoDoc
    /\ UNCHANGED << deleted, slide_groups, confirm_duplicate_add,
                    pending_duplicate_images, pending_new_images >>

\* "Add Selected to New Slide" (app.py:70-89)
AddSelectedUnguarded ==
    /\ prog = "app"
    /\ AppFrame
    /\ run + 1 <= MaxRun
    /\ run' = run + 1
    /\ slide_groups' = Append(slide_groups, SelectedForSlide(run + 1, checked))
    /\ selected_images' = <<>>
    /\ doc' = NoDoc
    /\ UNCHANGED << checked, deleted, confirm_duplicate_add,
                    pending_duplicate_images, pending_new_images >>
AddSelected ==
    /\ prog = "app"
    /\ AppFrame
    /\ run + 2 <= MaxRun
    /\ doc' = NoDoc
    /\ UNCHANGED << checked, deleted >>
    /\ LET sel == SelectedForSlide(run + 1, checked)
           used_images == get_all_used_images(slide_groups)
           duplicates == SelectSeq(sel, LAMBDA img : img \in used_images)
           non_duplicates == SelectSeq(sel, LAMBDA img : img \notin used_images)
       IN  IF sel = <<>>
           THEN /\ run' = run + 1
                /\ selected_images' = sel
                /\ UNCHANGED << slide_groups, confirm_duplicate_add,
                                pending_duplicate_images, pending_new_images >>
           ELSE IF duplicates # <<>>
           THEN /\ pending_duplicate_images' = duplicates
                /\ pending_new_images' = non_duplicates
                /\ confirm_duplicate_add' = TRUE
                /\ run' = run + 2
                /\ selected_images' = SelectedForSlide(run + 2, checked)
                /\ UNCHANGED slide_groups
           ELSE /\ slide_groups' = Append(slide_groups, sel)
                /\ selected_images' = <<>>
                /\ run' = run + 1
                /\ UNCHANGED << confirm_duplicate_add, pending_duplicate_images,
                                pending_new_images >>

\* "Clear Current Selection" (app.py:92-94)
ClearSelection ==
    /\ prog = "app"
    /\ AppFrame
    /\ run + 2 <= MaxRun
    /\ run' = run + 2
    /\ selected_images' = SelectedForSlide(run + 2, checked)
    /\ doc' = NoDoc
    /\ UNCHANGED << checked, deleted, slide_groups, confirm_duplicate_add,
                    pending_duplicate_images, pending_new_images >>

\* "Reset All Slides" (app.py:97-101)
ResetAllSlides ==
    /\ prog = "app"
    /\ AppFrame
    /\ run + 2 <= MaxRun
    /\ run' = run + 2
    /\ slide_groups' = <<>>
    /\ confirm_duplicate_add' = FALSE
    /\ selected_images' = SelectedForSlide(run + 2, checked)
    /\ doc' = NoDoc
    /\ UNCHANGED << checked, deleted, pending_duplicate_images, pending_new_images >>

\* "Yes, Add Duplicates" (app.py:116-125); the button exists only while
\* confirm_duplicate_add is set.
YesAddDuplicates ==
    /\ prog = "app"
    /\ AppFrame
    /\ confirm_duplicate_add
    /\ run + 2 <= MaxRun
    /\ run' = run + 2
    /\ slide_groups' = Append(slide_groups,
                              pending_new_images \o pending_duplicate_images)
    /\ confirm_duplicate_add' = FALSE
    /\ pending_duplicate_images' = <<>>
    /\ pending_new_images' = <<>>
    /\ selected_images' = SelectedForSlide(run + 2, checked)
    /\ doc' = NoDoc
    /\ UNCHANGED << checked, deleted >>

\* "No, Skip Duplicates" (app.py:127-137)
NoSkipDuplicates ==
    /\ prog = "app"
    /\ AppFrame
    /\ confirm_duplicate_add
    /\ run + 2 <= MaxRun
    /\ run' = run + 2
    /\ slide_groups' = IF pending_new_images # <<>>
                       THEN Append(slide_groups, pending_new_images)
                       ELSE slide_groups
    /\ confirm_duplicate_add' = FALSE
    /\ pending_duplicate_images' = <<>>
    /\ pending_new_images' = <<>>
    /\ selected_images' = SelectedForSlide(run + 2, checked)
    /\ doc' = NoDoc
    /\ UNCHANGED << checked, deleted >>

\* "Generate & Download PowerPoint" (app.py:149-204)
GenerateDownload ==
    /\ prog = "app"
    /\ AppFrame
    /\ run + 1 <= MaxRun
    /\ run' = run + 1
    /\ selected_images' = SelectedForSlide(run + 1, checked)
    /\ IF slide_groups = <<>>
       THEN /\ doc' = NoDoc
            /\ UNCHANGED deleted
       ELSE /\ doc' = [ slides |-> [ g \in 1..Len(slide_groups) |->
                                        AppSlide(slide_groups[g], deleted) ],
                        saved |-> TRUE ]
            /\ deleted' = deleted \cup { run + 1 }
    /\ UNCHANGED << checked, slide_groups, confirm_duplicate_add,
                    pending_duplicate_images, pending_new_images >>

\* ------------------------------------------------------------------------
\* src/ppt_generator.py: generate_ppt and create_canvas, one action per
\* loop iteration
\* ------------------------------------------------------------------------
\* "if not images: continue" (ppt_generator.py:64-65)
SkipFolder ==
    /\ prog = "batch"
    /\ BatchFrame
    /\ gp_pc = "loop"
    /\ fidx < Len(root)
    /\ root[fidx + 1].n = 0
    /\ fidx' = fidx + 1
    /\ UNCHANGED << root, gp_pc, slides, saved >>
    /\ UNCHANGED canvasVars

\* create_canvas(images) is entered (ppt_generator.py:12-22)
StartCanvas ==
    /\ prog = "batch"
    /\ BatchFrame
    /\ gp_pc = "loop"
    /\ fidx < Len(root)
    /\ root[fidx + 1].n # 0
    /\ gp_pc' = "canvas"
    /\ n' = root[fidx + 1].n
    /\ cols' = SquareCols(n')
    /\ rows' = SquareRows(n')
    /\ cell_w' = CellW(cols')
    /\ cell_h' = CellH(rows')
    /\ x' = MARGIN
    /\ y' = MARGIN
    /\ index' = 0
    /\ r' = 0
    /\ c' = 0
    /\ pasted' = 0
    /\ last' = NoPaste
    /\ UNCHANGED << root, fidx, slides, saved >>

\* The exception leaves create_canvas and generate_ppt: nothing catches it.
Raise ==
    /\ gp_pc' = "aborted"
    /\ UNCHANGED << root, fidx, slides, saved >>
    /\ UNCHANGED canvasVars

\* One pass of the inner loop body (ppt_generator.py:27-38)
PasteImage(img) ==
    LET size == Thumbnail(img.w, img.h, cell_w, cell_h)
        paste_x == x + ((cell_w - size[1]) \div 2)
        paste_y == y + ((cell_h - size[2]) \div 2)
    IN  /\ last' = Paste(index, r, c, Box(x, y, cell_w, cell_h),
                         Box(paste_x, paste_y, size[1], size[2]), img.w, img.h)
        /\ pasted' = pasted + 1
        /\ x' = x + cell_w + MARGIN
        /\ index' = index + 1
        /\ c' = c + 1
        /\ UNCHANGED << root, fidx, gp_pc, slides, saved, n, cols, rows,
                        cell_w, cell_h, y, r >>

PasteStep ==
    /\ prog = "batch"
    /\ BatchFrame
    /\ gp_pc = "canvas"
    /\ r < rows
    /\ c < cols
    /\ index < n
    /\ LET img == ImageAt(root[fidx + 1], index)
       IN  \/ /\ ~img.ok              \* Image.open raises
              /\ Raise
           \/ /\ img.ok
              /\ cell_h = 0           \* thumbnail: x / y divides by zero
              /\ ~(cell_w >= img.w /\ cell_h >= img.h)
              /\ Raise
           \/ /\ img.ok
              /\ cell_h < 0           \* Pillow before 7.0: resize raises
              /\ Raise
           \/ /\ img.ok
              /\ cell_h # 0           \* for cell_h < 0: Pillow 7.0 and later
              /\ PasteImage(img)

\* The inner loop ends (c = cols, or the break at index >= n); line 40
EndRow ==
    /\ prog = "batch"
    /\ BatchFrame
    /\ gp_pc = "canvas"
    /\ r < rows
    /\ c = cols \/ index >= n
    /\ y' = y + cell_h + MARGIN
    /\ r' = r + 1
    /\ c' = 0
    /\ x' = IF r + 1 < rows THEN MARGIN ELSE x
    /\ UNCHANGED << root, fidx, gp_pc, slides, saved, n, cols, rows, cell_w,
                    cell_h, index, pasted, last >>

\* create_canvas returns; the slide is added (ppt_generator.py:42, 67-89)
ReturnCanvas ==
    /\ prog = "batch"
    /\ BatchFrame
    /\ gp_pc = "canvas"
    /\ r = rows
    /\ slides' = Append(slides, fidx)
    /\ fidx' = fidx + 1
    /\ gp_pc' = "loop"
    /\ UNCHANGED << root, saved >>
    /\ UNCHANGED canvasVars

\* prs.save(output_path) (ppt_generator.py:91)
SavePresentation ==
    /\ prog = "batch"
    /\ BatchFrame
    /\ gp_pc = "loop"
    /\ fidx = Len(root)
    /\ saved' = TRUE
    /\ gp_pc' = "done"
    /\ UNCHANGED << root, fidx, slides >>
    /\ UNCHANGED canvasVars

\* YesAddDuplicates and NoSkipDuplicates are not steps of Next: their
\* buttons are rendered only while confirm_duplicate_add is set, and
\* DialogNeverOpens (below) shows that it never is.
Next ==
    \/ \E S \in SelectionChoices : ChangeSelection(S)
    \/ AddSelected
    \/ ClearSelection
    \/ ResetAllSlides
    \/ GenerateDownload
    \/ SkipFolder
    \/ StartCanvas
    \/ PasteStep
    \/ EndRow
    \/ ReturnCanvas
    \/ SavePresentation

Spec == Init /\ [][Next]_vars

\* Every run of the script makes its own temp dir (app.py:41), so the paths
\* selected in a run are never among the paths stored by earlier runs and
\* the duplicate dialog is never opened.
DialogNeverOpens ==
    /\ ~confirm_duplicate_add
    /\ pending_duplicate_images = <<>>
    /\ pending_new_images = <<>>


\* ------------------------------------------------------------------------
\* What the claims speak of
\* ------------------------------------------------------------------------
\* The slides of the document built by the app, and their pictures
DocSlides == { doc.slides[g] : g \in 1..Len(doc.slides) }
ItemsOf(sl) == { sl.items[k] : k \in 1..Len(sl.items) }
PlacedOf(sl) == { it \in ItemsOf(sl) : it.placed }

\* create_canvas has pasted at least one image
HasPasted == prog = "batch" /\ last.index >= 0

\* The cell of row rr and column cc of the canvas of create_canvas
CanvasCell(rr, cc) ==
    Box(MARGIN + cc * (cell_w + MARGIN), MARGIN + rr * (cell_h + MARGIN),
        cell_w, cell_h)

Inside(b, cell) ==
    /\ b.left >= cell.left
    /\ b.top >= cell.top
    /\ b.width <= cell.width
    /\ b.height <= cell.height
    /\ b.left + b.width <= cell.left + cell.width
    /\ b.top + b.height <= cell.top + cell.height

Disjoint(a, b) ==
    \/ a.left + a.width <= b.left
    \/ b.left + b.width <= a.left
    \/ a.top + a.height <= b.top
    \/ b.top + b.height <= a.top

\* w / h equals nw / nh up to one unit of rounding in w or in h
SameAspect(w, h, nw, nh) == Abs(w * nh - h * nw) <= Max(nw, nh)

\* The free space on the two sides differs by at most tol
Centred(b, cell, tol) ==
    /\ Abs(2 * (b.left - cell.left) - (cell.width - b.width)) <= tol
    /\ Abs(2 * (b.top - cell.top) - (cell.height - b.height)) <= tol

\* ------------------------------------------------------------------------
\* C1: for every item count n >= 1 the grid has rows >= 1, columns >= 1 and
\* rows * columns >= n, in the square planner of create_canvas and in the
\* threshold planner of app.py.
\* ------------------------------------------------------------------------
C1_GridHoldsAll ==
    /\ (prog = "batch" /\ gp_pc = "canvas") =>
           (n >= 1 /\ rows >= 1 /\ cols >= 1 /\ rows * cols >= n)
    /\ \A sl \in DocSlides :
           sl.n >= 1 => (sl.rows >= 1 /\ sl.cols >= 1 /\ sl.rows * sl.cols >= sl.n)

\* A canvas of 5 images in a 2 x 3 grid, one cell to spare
C1_Witness == prog = "batch" /\ gp_pc = "canvas" /\ n = 5 /\ rows * cols = 6 /\ index = 5


\* ------------------------------------------------------------------------
\* C2: every image placed lies inside its cell: left >= cell.left,
\* top >= cell.top, width <= cell.width, height <= cell.height, for every
\* item count and every native size.
\* ------------------------------------------------------------------------
C2_PlacementInsideCell ==
    /\ HasPasted => Inside(last.box, last.cell)
    /\ \A sl \in DocSlides : \A it \in PlacedOf(sl) : Inside(it.box, it.cell)

\* ------------------------------------------------------------------------
\* C3: the aspect ratio of every image placed is its native aspect ratio,
\* up to rounding (one pixel on the canvas, one hundredth of an inch on
\* the slide).
\* ------------------------------------------------------------------------
C3_AspectPreserved ==
    /\ HasPasted =>
           SameAspect(last.box.width, last.box.height, last.native[1], last.native[2])
    /\ \A sl \in DocSlides : \A it \in PlacedOf(sl) :
           SameAspect(it.box.width \div EMU_PER_HUNDREDTH,
                      it.box.height \div EMU_PER_HUNDREDTH,
                      it.native[1], it.native[2])

\* ------------------------------------------------------------------------
\* C4: every image placed is centred in its cell on both axes, up to
\* rounding: left - cell.left = (cell.width - width) / 2 and
\* top - cell.top = (cell.height - height) / 2.
\* ------------------------------------------------------------------------
C4_CentredInCell ==
    /\ HasPasted => Centred(last.box, last.cell, 1)
    /\ \A sl \in DocSlides : \A it \in PlacedOf(sl) : Centred(it.box, it.cell, 2)

\* ------------------------------------------------------------------------
\* C5: for every grid the planner produces the cells have one uniform size
\* with positive width and height, do not overlap and lie inside the canvas
\* inset by the margin; the cell of each paste is the cell of its row and
\* column.
\* ------------------------------------------------------------------------
C5_CellsPartitionCanvas ==
    /\ (prog = "batch" /\ gp_pc = "canvas") =>
          /\ cell_w > 0
          /\ cell_h > 0
          /\ \A rr \in 0..(rows - 1), cc \in 0..(cols - 1) :
                Inside(CanvasCell(rr, cc),
                       Box(MARGIN, MARGIN, SLIDE_WIDTH - 2 * MARGIN,
                           SLIDE_HEIGHT - 2 * MARGIN))
          /\ \A r1, r2 \in 0..(rows - 1), c1, c2 \in 0..(cols - 1) :
                << r1, c1 >> # << r2, c2 >> =>
                    Disjoint(CanvasCell(r1, c1), CanvasCell(r2, c2))
          /\ last.index >= 0 => last.cell = CanvasCell(last.r, last.c)
    /\ \A sl \in DocSlides :
          /\ \A it \in ItemsOf(sl) :
                /\ it.cell.width > 0
                /\ it.cell.height > 0
                /\ it.cell.width = Inches(max_width, sl.cols)
                /\ it.cell.height = Inches(max_height, sl.rows)
                /\ Inside(it.cell, Box(0, 0, Inches(max_width, 1), Inches(max_height, 1)))
          /\ \A i1, i2 \in ItemsOf(sl) :
                i1.idx # i2.idx => Disjoint(i1.cell, i2.cell)

\* ------------------------------------------------------------------------
\* C6: an image that cannot be decoded is skipped and nothing else is lost:
\* the run is not aborted, every other image is placed and the document is
\* saved.
\* ------------------------------------------------------------------------
C6_BadImageOnlySkipped ==
    /\ (prog = "batch" /\ gp_pc = "canvas" /\ r = rows) =>
           pasted = Cardinality({ i \in 0..(n - 1) : ImageAt(root[fidx + 1], i).ok })
    /\ (prog = "batch" /\ gp_pc = "aborted") => ImageAt(root[fidx + 1], index).ok
    /\ (prog = "batch" /\ gp_pc = "done") =>
          /\ saved
          /\ Len(slides) = Cardinality({ f \in 1..Len(root) : root[f].n > 0 })
    /\ (doc # NoDoc) =>
          /\ doc.saved
          /\ Len(doc.slides) = Len(slide_groups)
          /\ \A sl \in DocSlides : \A it \in ItemsOf(sl) :
                Content(it.path).ok => it.placed

\* ------------------------------------------------------------------------
\* C7 as stated: for n = 1 the threshold planner gives rows = 2,
\* columns = 2 and the square planner rows = 1, columns = 1.
\* ------------------------------------------------------------------------
C7_SingleImageGridAsStated ==
    /\ (prog = "batch" /\ gp_pc = "canvas" /\ n = 1) => (rows = 1 /\ cols = 1)
    /\ \A sl \in DocSlides : sl.n = 1 => (sl.rows = 2 /\ sl.cols = 2)

\* C7 amended: for n = 1 the threshold planner gives rows = 2, columns = 1
\* (ceil(1 / 2)) and the square planner rows = 1, columns = 1.
C7_SingleImageGrid ==
    /\ (prog = "batch" /\ gp_pc = "canvas" /\ n = 1) => (rows = 1 /\ cols = 1)
    /\ \A sl \in DocSlides : sl.n = 1 => (sl.rows = 2 /\ sl.cols = 1)

\* A slide of one image was generated by the app
C7_Witness == \E sl \in DocSlides : sl.n = 1 /\ doc.saved

\* ------------------------------------------------------------------------
\* C8: the i-th image goes to row i div C, column i mod C, that row is
\* below R, and every one of the n images is placed exactly once: at each
\* paste index = r * cols + c, and create_canvas ends with index = n and
\* n pastes.
\* ------------------------------------------------------------------------
C8_RowMajorAllPlaced ==
    /\ HasPasted =>
          /\ last.index = last.r * cols + last.c
          /\ last.r = last.index \div cols
          /\ last.c = last.index % cols
          /\ last.r < rows
          /\ pasted = last.index + 1
    /\ (prog = "batch" /\ (gp_pc = "aborted" \/ (gp_pc = "canvas" /\ r = rows))) =>
          (index = n /\ pasted = n)
    /\ \A sl \in DocSlides :
          /\ Len(sl.items) = sl.n
          /\ \A it \in ItemsOf(sl) :
                /\ it.row = it.idx \div sl.cols
                /\ it.col = it.idx % sl.cols
                /\ it.row < sl.rows
          /\ \A i1, i2 \in ItemsOf(sl) :
                i1.idx # i2.idx => << i1.row, i1.col >> # << i2.row, i2.col >>

\* ------------------------------------------------------------------------
\* C9: the grid is never computed for n = 0: every group of slide_groups is
\* non-empty, create_canvas runs only for folders with an image, and the
\* divisors cols_grid, rows and cols are never zero.
\* ------------------------------------------------------------------------
C9_NeverEmpty ==
    /\ \A g \in 1..Len(slide_groups) : slide_groups[g] # <<>>
    /\ \A sl \in DocSlides : sl.n >= 1 /\ sl.rows # 0 /\ sl.cols # 0
    /\ (prog = "batch" /\ gp_pc = "canvas") => (n >= 1 /\ cols # 0 /\ rows # 0)

\* Two groups were added and the document was built from them
C9_Witness ==
    /\ Len(slide_groups) >= 2
    /\ doc.saved
    /\ Len(doc.slides) = Len(slide_groups)

\* ------------------------------------------------------------------------
\* C10: while "Yes, Add Duplicates" is never clicked (it is not a step of
\* Next), no image is in two different groups of slide_groups.  An image is
\* the file of that name among the uploads, whatever temp dir holds it.
\* ------------------------------------------------------------------------
C10_NoImageInTwoGroups ==
    \A g1, g2 \in 1..Len(slide_groups) :
        g1 # g2 =>
            { p.name : p \in Range(slide_groups[g1]) }
                \cap { p.name : p \in Range(slide_groups[g2]) } = {}

=============================================================================
